---- MODULE Spec2Model ----
(***************************************************************************)
(* TripSense AI front end: the page controllers (Home, PlanTrip, Trips,    *)
(* Diary, Discover) as state machines over the auth provider, the data     *)
(* store and the recommendation function.  Every handler is an async       *)
(* function: it runs to its first await, and each later continuation is a  *)
(* step of its own, so other events interleave at every await.  A handler  *)
(* reads the state of the render it was created in (its closure), which    *)
(* the pending operation carries with it.                                  *)
(***************************************************************************)
EXTENDS Integers, Sequences, FiniteSets, TLC

VARIABLES
    session,      \* auth provider: the user id of the active session, or NoUser
    store,        \* data store: table name -> set of rows
    nextId,       \* data store: the next primary key / creation time it hands out
    path,         \* router: the current location
    mounted,      \* whether the page component under study is mounted
    table,        \* list pages: the table of the page under study
    entries,      \* list pages: useState list (trips / entries / destinations)
    loading,      \* every page: useState loading
    dialogOpen,   \* Diary, Discover: useState dialogOpen
    form,         \* the page's form fields (useState strings)
    aiRecommendations, \* PlanTrip: useState aiRecommendations
    user,         \* Home: useState user
    subscribed,   \* Home: number of live onAuthStateChange subscriptions
    fetches,      \* pending fetchTrips / fetchEntries / fetchDestinations calls
    creates,      \* pending createEntry / saveDestination calls
    deletes,      \* pending deleteTrip / deleteEntry / deleteDestination calls
    requests,     \* pending PlanTrip calls (handleGetRecommendations, handleSaveTrip)
    authCalls,    \* pending Home calls (getSession, signOut)
    calls,        \* how many handler calls have reached the network so far
    toast         \* the most recent notification

vars == <<session, store, nextId, path, mounted, table, entries, loading,
          dialogOpen, form, aiRecommendations, user, subscribed, fetches,
          creates, deletes, requests, authCalls, calls, toast>>

(***************************************************************************)
(* Bounds of the model.                                                    *)
(***************************************************************************)
\* handler calls (inserts, deletes, requests) that reach the network in one
\* behaviour
MaxCalls == 3
\* of these, the calls of a behaviour in which the store or the session may
\* fail
MaxFaultyCalls == 2
\* records one page creates in one behaviour
MaxCreates == 2
\* calls one page has outstanding at the same time
MaxPending == 2

(***************************************************************************)
(* Values.                                                                 *)
(***************************************************************************)
NoUser == "null"
Me == "u1"
Other == "u2"
NoToast == [level |-> "none", msg |-> ""]
Toast(level, msg) == [level |-> level, msg |-> msg]
\* error.message of a failed call: the collaborator's text, or none
Messages == {"", "backend error"}
\* a notification that always shows the page's own text
OrElse_fallbackOnly(message, fallback) == fallback

\* error.message || fallback
OrElse(message, fallback) == IF message = "" THEN fallback ELSE message

Tables == {"trips", "diary_entries", "saved_destinations"}

\* the route of the page that lists a table
PagePath(tbl) ==
    CASE tbl = "trips" -> "/trips"
      [] tbl = "diary_entries" -> "/diary"
      [] tbl = "saved_destinations" -> "/discover"

\* "YYYY-MM-DD" strings are <<y, m, d>>; the empty string is <<>>
NoDate == <<>>
Jan1 == <<2024, 1, 1>>
Jan5 == <<2024, 1, 5>>
Jan9 == <<2024, 1, 9>>

RECURSIVE SeqFilter(_, _)
\* Array.prototype.filter(x => x.id !== id)
SeqFilter(s, id) ==
    IF s = <<>> THEN <<>>
    ELSE IF Head(s).id # id THEN <<Head(s)>> \o SeqFilter(Tail(s), id)
         ELSE SeqFilter(Tail(s), id)

Range(s) == {s[i] : i \in 1..Len(s)}

(***************************************************************************)
(* The data store (external collaborator): select * where user_id = X      *)
(* order by F desc; insert(record); delete where id = X.                   *)
(***************************************************************************)
\* the column a page orders its list by
OrderField(tbl) ==
    CASE tbl = "trips" -> "start_date"
      [] tbl = "diary_entries" -> "entry_date"
      [] tbl = "saved_destinations" -> "created_at"

\* the order of ISO dates (and of creation times) as a number
DateKey(d) == IF d = NoDate THEN 0 ELSE d[1] * 10000 + d[2] * 100 + d[3]

OrderKey(tbl, row) ==
    CASE tbl = "trips" -> DateKey(row.start_date)
      [] tbl = "diary_entries" -> DateKey(row.entry_date)
      [] tbl = "saved_destinations" -> row.created_at

\* every sequence holding each row of S once, in descending order of the
\* order field (rows with equal keys come in any order)
Orderings(tbl, S) ==
    {s \in [1..Cardinality(S) -> S] :
        /\ \A i, j \in 1..Cardinality(S) : i # j => s[i] # s[j]
        /\ \A i, j \in 1..Cardinality(S) :
              i < j => OrderKey(tbl, s[i]) >= OrderKey(tbl, s[j])}

\* a query's filters are <<column, value>> pairs; the store keeps the rows
\* that satisfy every one of them
StoreFilter(rows, filters) == {r \in rows : \A f \in filters : r[f[1]] = f[2]}

\* .from(tbl).select('*') with the query's filters and .order(field, desc)
StoreSelect(tbl, filters) == Orderings(tbl, StoreFilter(store[tbl], filters))

\* .from(tbl).insert(body): the store adds the primary key and creation time
StoreInsert(tbl, body) ==
    [store EXCEPT ![tbl] = @ \cup {[id |-> nextId, created_at |-> nextId] @@ body}]

\* .from(tbl).delete() with the query's filters: every row they match,
\* possibly none, is removed
StoreDelete(tbl, filters) ==
    [store EXCEPT ![tbl] = @ \ StoreFilter(@, filters)]

TripRow(id, uid, dest, sd, ed, budget, type, notes) ==
    [id |-> id, created_at |-> id, user_id |-> uid, destination |-> dest,
     start_date |-> sd, end_date |-> ed, budget |-> budget,
     travel_type |-> type, notes |-> notes, status |-> "planned"]

DiaryRow(id, uid, title, content, location, date) ==
    [id |-> id, created_at |-> id, user_id |-> uid, title |-> title,
     content |-> content, location |-> location, entry_date |-> date]

DestinationRow(id, uid, name, location, description, category) ==
    [id |-> id, created_at |-> id, user_id |-> uid, destination_name |-> name,
     location |-> location, description |-> description,
     category |-> category, notes |-> ""]

\* the rows the store holds when the page is opened: the user's own and
\* one of another user's
InitRows(tbl) ==
    CASE tbl = "trips" ->
            {TripRow(1, Me, "Tokyo, Japan", Jan1, Jan5, 1000, "solo", "Day 1: ..."),
             TripRow(2, Me, "Paris", Jan5, Jan9, 500, "couple", ""),
             TripRow(3, Other, "Rome", Jan1, Jan5, 800, "family", "")}
      [] tbl = "diary_entries" ->
            {DiaryRow(1, Me, "Arrival", "Landed", "", Jan1),
             DiaryRow(3, Other, "Rome", "Forum", "Rome", Jan5)}
      [] tbl = "saved_destinations" ->
            {DestinationRow(1, Me, "Nara", "Japan", "", ""),
             DestinationRow(3, Other, "Ostia", "Italy", "", "")}
\* the id the store gives to the first row it is asked to insert
FirstFreeId == 1 + Cardinality(UNION {{r.id : r \in InitRows(t)} : t \in Tables})

InitStore(tbl) == [t \in Tables |-> IF t = tbl THEN InitRows(t) ELSE {}]

(***************************************************************************)
(* What every handler shares.                                              *)
(***************************************************************************)
Pending == Cardinality(fetches) + Cardinality(creates) + Cardinality(deletes)
            + Cardinality(requests) + Cardinality(authCalls)

\* a handler call that reaches the network is numbered, so that two calls
\* with the same arguments stay two pending calls
MayCall == calls < MaxCalls /\ Pending < MaxPending
\* the call budget of the behaviours with failures
FewCalls == calls <= MaxFaultyCalls
NewCall == calls + 1

\* the state of a component is gone with the component: once unmounted,
\* the page's variables hold these values and no setter changes them
StateVars == <<entries, loading, dialogOpen, form, aiRecommendations, user, subscribed>>

\* an effect without the cleanup: the subscription outlives the page
Cleanup_none(n) == n

\* the effect's cleanup on unmount: return () => subscription.unsubscribe()
Cleanup(n) == IF n > 0 THEN n - 1 ELSE 0

\* navigate(to): a change of route unmounts the page under study
Navigate(to) ==
    /\ path' = to
    /\ mounted' = (mounted /\ to = path)
    /\ IF mounted /\ to # path
       THEN /\ entries' = <<>>
            /\ loading' = FALSE
            /\ dialogOpen' = FALSE
            /\ form' = <<>>
            /\ aiRecommendations' = ""
            /\ user' = NoUser
            /\ subscribed' = Cleanup(subscribed)
       ELSE UNCHANGED StateVars

\* the page of a route is rendered: its buttons and inputs can be used
Shown(route) == mounted /\ path = route

\* a useState setter: a no-op once the component is unmounted
SetState(new, old) == IF mounted THEN new ELSE old

PageVars == <<table, StateVars>>
OpVars == <<fetches, creates, deletes, requests, authCalls, calls>>
StoreVars == <<store, nextId>>
RouteVars == <<path, mounted>>

(***************************************************************************)
(* The list pages: Trips, Diary, Discover.                                 *)
(***************************************************************************)
\* the notifications of a list page
LoadFailed(tbl) ==
    CASE tbl = "trips" -> "Failed to load trips"
      [] tbl = "diary_entries" -> "Failed to load diary entries"
      [] tbl = "saved_destinations" -> "Failed to load destinations"
Deleted(tbl) ==
    CASE tbl = "trips" -> "Trip deleted"
      [] tbl = "diary_entries" -> "Entry deleted"
      [] tbl = "saved_destinations" -> "Destination removed"
DeleteFailed(tbl) ==
    CASE tbl = "trips" -> "Failed to delete trip"
      [] tbl = "diary_entries" -> "Failed to delete entry"
      [] tbl = "saved_destinations" -> "Failed to remove destination"
Created(tbl) ==
    CASE tbl = "diary_entries" -> "Entry created!"
      [] tbl = "saved_destinations" -> "Destination saved!"
CreateFailed(tbl) ==
    CASE tbl = "diary_entries" -> "Failed to create entry"
      [] tbl = "saved_destinations" -> "Failed to save destination"
FillIn(tbl) ==
    CASE tbl = "diary_entries" -> "Please fill in title and content"
      [] tbl = "saved_destinations" -> "Please fill in name and location"

\* what the user may type into the dialog's inputs
Today == Jan5
FormInputs(tbl) ==
    CASE tbl = "diary_entries" ->
            [title : {"", "Amazing day"}, content : {"", "Temples"},
             location : {"", "Tokyo, Japan"}, entryDate : {Today, Jan1}]
      [] tbl = "saved_destinations" ->
            [name : {"", "Hidden Temple"}, location : {"", "Kyoto, Japan"},
             description : {"", "Quiet gardens"}, category : {"", "Culture"}]
      [] tbl = "trips" -> {<<>>}

\* the form's useState initial values
InitForm(tbl) ==
    CASE tbl = "diary_entries" ->
            [title |-> "", content |-> "", location |-> "", entryDate |-> Today]
      [] tbl = "saved_destinations" ->
            [name |-> "", location |-> "", description |-> "", category |-> ""]
      [] tbl = "trips" -> <<>>

\* the form after a successful insert (Diary keeps its date)
ResetForm(tbl, f) ==
    CASE tbl = "diary_entries" ->
            [f EXCEPT !.title = "", !.content = "", !.location = ""]
      [] tbl = "saved_destinations" ->
            [name |-> "", location |-> "", description |-> "", category |-> ""]
      [] tbl = "trips" -> f

\* if (!title || !content) / if (!name || !location)
FormMissing(tbl, f) ==
    CASE tbl = "diary_entries" -> f.title = "" \/ f.content = ""
      [] tbl = "saved_destinations" -> f.name = "" \/ f.location = ""
      [] tbl = "trips" -> TRUE

\* a record written with a neighbouring input's value
InsertBody_wrongInput(tbl, uid, f) ==
    CASE tbl = "diary_entries" ->
            [user_id |-> uid, title |-> f.title, content |-> f.title,
             location |-> f.location, entry_date |-> f.entryDate]
      [] tbl = "saved_destinations" ->
            [user_id |-> uid, destination_name |-> f.name, location |-> f.name,
             description |-> f.description, category |-> f.category, notes |-> ""]

\* the record handed to insert()
InsertBody(tbl, uid, f) ==
    CASE tbl = "diary_entries" ->
            [user_id |-> uid, title |-> f.title, content |-> f.content,
             location |-> f.location, entry_date |-> f.entryDate]
      [] tbl = "saved_destinations" ->
            [user_id |-> uid, destination_name |-> f.name, location |-> f.location,
             description |-> f.description, category |-> f.category, notes |-> ""]

\* a list query without the owner filter
ListQuery_unfiltered(uid) == {}

\* .eq('user_id', user.id) of the list query
ListQuery(uid) == {<<"user_id", uid>>}

\* .eq('id', id) of the delete query
DeleteQuery(id) == {<<"id", id>>}

\* the call of fetchX(): the function runs to `await supabase.auth.getUser()`.
\* `after` tells which insert the call follows (the row's id and the form
\* values it was submitted with), or OnMount for the effect's call
FetchCall(n, after) ==
    [n |-> n, phase |-> "getUser", uid |-> NoUser, query |-> {}, err |-> FALSE,
     data |-> <<>>, after |-> after]
OnMount(tbl) == [id |-> 0, closure |-> InitForm(tbl)]

\* fetchX, resumed with getUser's answer
FetchGetUser(tbl) ==
    \E op \in fetches :
        /\ op.phase = "getUser"
        /\ IF session = NoUser
           THEN /\ Navigate("/auth")
                /\ fetches' = fetches \ {op}
           ELSE /\ fetches' = (fetches \ {op})
                       \cup {[op EXCEPT !.phase = "select", !.uid = session,
                                         !.query = ListQuery(session)]}
                /\ UNCHANGED <<RouteVars, StateVars>>
        /\ UNCHANGED <<session, StoreVars, table, creates, deletes,
                       requests, authCalls, calls, toast>>

\* a fetch that empties the list when the select failed
FetchSelect_clearsOnError(tbl) ==
    \E op \in fetches :
        /\ op.phase = "reply"
        /\ IF op.err
           THEN /\ toast' = Toast("error", LoadFailed(tbl))
                /\ entries' = SetState(<<>>, entries)
           ELSE /\ entries' = SetState(op.data, entries)
                /\ UNCHANGED toast
        /\ loading' = SetState(FALSE, loading)
        /\ fetches' = fetches \ {op}
        /\ UNCHANGED <<session, StoreVars, RouteVars, table, dialogOpen, form,
                       aiRecommendations, user, subscribed, creates, deletes,
                       requests, authCalls, calls>>

\* fetchX, resumed with the select's answer
FetchSelect(tbl) ==
    \E op \in fetches :
        /\ op.phase = "reply"
        /\ IF op.err
           THEN /\ toast' = Toast("error", LoadFailed(tbl))
                /\ UNCHANGED entries
           ELSE /\ entries' = SetState(op.data, entries)
                /\ UNCHANGED toast
        /\ loading' = SetState(FALSE, loading)
        /\ fetches' = fetches \ {op}
        /\ UNCHANGED <<session, StoreVars, RouteVars, table, dialogOpen, form,
                       aiRecommendations, user, subscribed, creates, deletes,
                       requests, authCalls, calls>>

\* the records created so far and those on their way to the store are
\* fewer than the page may create
MayCreate ==
    (nextId - FirstFreeId) + Cardinality({op \in creates : op.phase # "reply"})
        < MaxCreates

\* createEntry / saveDestination: the click on the dialog's button
CreateCall(tbl) ==
    /\ Shown(PagePath(tbl)) /\ ~loading /\ dialogOpen
    /\ IF FormMissing(tbl, form)
       THEN /\ toast' = Toast("error", FillIn(tbl))
            /\ UNCHANGED <<creates, calls>>
       ELSE /\ MayCall /\ MayCreate
            /\ calls' = NewCall
            /\ creates' = creates \cup
                 {[n |-> NewCall, phase |-> "getUser", closure |-> form,
                   uid |-> NoUser, err |-> FALSE, message |-> "", rowId |-> 0]}
            /\ UNCHANGED toast
    /\ UNCHANGED <<session, StoreVars, RouteVars, PageVars, fetches, deletes,
                   requests, authCalls>>

\* createEntry / saveDestination, resumed with getUser's answer
CreateGetUser(tbl) ==
    \E op \in creates :
        /\ op.phase = "getUser"
        /\ IF session = NoUser
           THEN /\ toast' = Toast("error", OrElse("Not authenticated", CreateFailed(tbl)))
                /\ creates' = creates \ {op}
           ELSE /\ creates' = (creates \ {op})
                       \cup {[op EXCEPT !.phase = "insert", !.uid = session]}
                /\ UNCHANGED toast
        /\ UNCHANGED <<session, StoreVars, RouteVars, PageVars, fetches, deletes,
                       requests, authCalls, calls>>

\* createEntry / saveDestination, resumed with the insert's answer
CreateInsert(tbl) ==
    \E op \in creates :
        /\ op.phase = "reply"
        /\ creates' = creates \ {op}
        /\ IF op.err
           THEN /\ toast' = Toast("error", OrElse(op.message, CreateFailed(tbl)))
                /\ UNCHANGED <<dialogOpen, form, fetches>>
           ELSE /\ toast' = Toast("success", Created(tbl))
                /\ dialogOpen' = SetState(FALSE, dialogOpen)
                /\ form' = SetState(ResetForm(tbl, form), form)
                /\ fetches' = fetches \cup
                     {FetchCall(op.n, [id |-> op.rowId, closure |-> op.closure])}
        /\ UNCHANGED <<session, StoreVars, RouteVars, table, entries, loading,
                       aiRecommendations, user, subscribed, deletes, requests,
                       authCalls, calls>>

\* deleteX(id): the click on an item's delete button; the handler keeps the
\* list of the render it was created in
DeleteCall(tbl) ==
    \E id \in {r.id : r \in Range(entries)} :
        /\ Shown(PagePath(tbl)) /\ ~loading
        /\ MayCall
        /\ calls' = NewCall
        /\ deletes' = deletes \cup
             {[n |-> NewCall, phase |-> "delete", query |-> DeleteQuery(id),
               id |-> id, closure |-> entries, err |-> FALSE, found |-> FALSE]}
        /\ UNCHANGED <<session, StoreVars, RouteVars, PageVars, fetches, creates,
                       requests, authCalls, toast>>

\* a handler that takes the item out of the list whatever the store answered
DeleteReply_removesAnyway(tbl) ==
    \E op \in deletes :
        /\ op.phase = "reply"
        /\ deletes' = deletes \ {op}
        /\ toast' = IF op.err THEN Toast("error", DeleteFailed(tbl))
                    ELSE Toast("success", Deleted(tbl))
        /\ entries' = SetState(SeqFilter(op.closure, op.id), entries)
        /\ UNCHANGED <<session, StoreVars, RouteVars, table, loading, dialogOpen,
                       form, aiRecommendations, user, subscribed, fetches,
                       creates, requests, authCalls, calls>>

\* deleteX, resumed with the delete's answer
DeleteReply(tbl) ==
    \E op \in deletes :
        /\ op.phase = "reply"
        /\ deletes' = deletes \ {op}
        /\ IF op.err
           THEN /\ toast' = Toast("error", DeleteFailed(tbl))
                /\ UNCHANGED entries
           ELSE /\ toast' = Toast("success", Deleted(tbl))
                /\ entries' = SetState(SeqFilter(op.closure, op.id), entries)
        /\ UNCHANGED <<session, StoreVars, RouteVars, table, loading, dialogOpen,
                       form, aiRecommendations, user, subscribed, fetches,
                       creates, requests, authCalls, calls>>

fetchTrips == table = "trips" /\ (FetchGetUser("trips") \/ FetchSelect("trips"))
deleteTrip == table = "trips" /\ (DeleteCall("trips") \/ DeleteReply("trips"))

fetchEntries ==
    /\ table = "diary_entries"
    /\ (FetchGetUser("diary_entries") \/ FetchSelect("diary_entries"))
createEntry ==
    /\ table = "diary_entries"
    /\ \/ CreateCall("diary_entries")
       \/ CreateGetUser("diary_entries")
       \/ CreateInsert("diary_entries")
deleteEntry ==
    /\ table = "diary_entries"
    /\ (DeleteCall("diary_entries") \/ DeleteReply("diary_entries"))

fetchDestinations ==
    /\ table = "saved_destinations"
    /\ (FetchGetUser("saved_destinations") \/ FetchSelect("saved_destinations"))
saveDestination ==
    /\ table = "saved_destinations"
    /\ \/ CreateCall("saved_destinations")
       \/ CreateGetUser("saved_destinations")
       \/ CreateInsert("saved_destinations")
deleteDestination ==
    /\ table = "saved_destinations"
    /\ (DeleteCall("saved_destinations") \/ DeleteReply("saved_destinations"))

\* the inputs' onChange handlers (setTitle, setContent, setName, ...)
FormInput ==
    /\ Shown(PagePath(table)) /\ ~loading /\ dialogOpen
    /\ \E f \in FormInputs(table) :
          /\ Cardinality({k \in DOMAIN f : f[k] # form[k]}) = 1
          /\ form' = f
    /\ UNCHANGED <<session, StoreVars, RouteVars, table, entries, loading,
                   dialogOpen, aiRecommendations, user, subscribed, OpVars, toast>>

\* Dialog onOpenChange={setDialogOpen} and the "Create Entry" button
setDialogOpen ==
    /\ Shown(PagePath(table)) /\ ~loading
    /\ table # "trips"
    /\ dialogOpen' = ~dialogOpen
    /\ UNCHANGED <<session, StoreVars, RouteVars, table, entries, loading, form,
                   aiRecommendations, user, subscribed, OpVars, toast>>

\* "Back to Home": navigate('/'). A list page renders the button once it
\* has loaded, PlanTrip renders it always
BackToHome ==
    /\ Shown("/plan-trip") \/ (Shown(PagePath(table)) /\ ~loading)
    /\ Navigate("/")
    /\ UNCHANGED <<session, StoreVars, table, OpVars, toast>>

\* "Plan New Trip" / "Plan Your First Trip" of the trips page:
\* navigate('/plan-trip')
PlanNewTrip ==
    /\ table = "trips"
    /\ Shown("/trips") /\ ~loading
    /\ Navigate("/plan-trip")
    /\ UNCHANGED <<session, StoreVars, table, OpVars, toast>>

(***************************************************************************)
(* The collaborators' side of a pending call.                              *)
(***************************************************************************)
\* the store answers a select: an error, or the rows of the query in order
StoreAnswersSelect ==
    \E op \in fetches :
        /\ op.phase = "select"
        /\ \/ fetches' = (fetches \ {op})
                  \cup {[op EXCEPT !.phase = "reply", !.err = TRUE]}
           \/ \E rows \in StoreSelect(table, op.query) :
                 fetches' = (fetches \ {op})
                    \cup {[op EXCEPT !.phase = "reply", !.data = rows]}
        /\ UNCHANGED <<session, StoreVars, RouteVars, PageVars, creates, deletes,
                       requests, authCalls, calls, toast>>

\* the store answers an insert: an error, or the row is written
StoreAnswersInsert ==
    \E op \in creates :
        /\ op.phase = "insert"
        /\ \/ /\ \E m \in Messages :
                    creates' = (creates \ {op})
                       \cup {[op EXCEPT !.phase = "reply", !.err = TRUE, !.message = m]}
              /\ UNCHANGED StoreVars
           \/ /\ creates' = (creates \ {op})
                    \cup {[op EXCEPT !.phase = "reply", !.rowId = nextId]}
              /\ store' = StoreInsert(table, InsertBody(table, op.uid, op.closure))
              /\ nextId' = nextId + 1
        /\ UNCHANGED <<session, RouteVars, PageVars, fetches, deletes, requests,
                       authCalls, calls, toast>>

\* the store answers a delete: an error, or the matching rows are gone
StoreAnswersDelete ==
    \E op \in deletes :
        /\ op.phase = "delete"
        /\ LET found == StoreFilter(store[table], op.query) # {}
           IN  \/ /\ deletes' = (deletes \ {op})
                       \cup {[op EXCEPT !.phase = "reply", !.found = found,
                                        !.err = TRUE]}
                  /\ UNCHANGED StoreVars
               \/ /\ deletes' = (deletes \ {op})
                       \cup {[op EXCEPT !.phase = "reply", !.found = found]}
                  /\ store' = StoreDelete(table, op.query)
                  /\ UNCHANGED nextId
        /\ UNCHANGED <<session, RouteVars, PageVars, fetches, creates, requests,
                       authCalls, calls, toast>>

\* the session ends (expiry, or a sign-out elsewhere)
SessionEnds ==
    /\ session # NoUser
    /\ session' = NoUser
    /\ UNCHANGED <<StoreVars, RouteVars, PageVars, OpVars, toast>>

InitList ==
    /\ session \in {Me, NoUser}
    /\ table \in Tables
    /\ store = InitStore(table)
    /\ nextId = FirstFreeId
    /\ path = PagePath(table)
    /\ mounted = TRUE
    /\ entries = <<>>
    /\ loading = TRUE
    /\ dialogOpen = FALSE
    /\ form = InitForm(table)
    /\ aiRecommendations = ""
    /\ user = NoUser
    /\ subscribed = 0
    /\ fetches = {FetchCall(0, OnMount(table))}
    /\ creates = {}
    /\ deletes = {}
    /\ requests = {}
    /\ authCalls = {}
    /\ calls = 0
    /\ toast = NoToast

NextList ==
    \/ fetchTrips
    \/ deleteTrip /\ FewCalls'
    \/ fetchEntries
    \/ createEntry /\ FewCalls'
    \/ deleteEntry /\ FewCalls'
    \/ fetchDestinations
    \/ saveDestination /\ FewCalls'
    \/ deleteDestination /\ FewCalls'
    \/ FormInput \/ setDialogOpen \/ BackToHome \/ PlanNewTrip
    \/ StoreAnswersSelect \/ StoreAnswersInsert \/ StoreAnswersDelete
    \/ SessionEnds

SpecList == InitList /\ [][NextList]_vars

\* Diary and Discover while every call is answered with success: the user
\* stays signed in and the store accepts every select, insert and delete
NoErrors ==
    /\ \A op \in fetches : ~op.err
    /\ \A op \in creates : ~op.err
    /\ \A op \in deletes : ~op.err

InitSettled == InitList /\ session = Me /\ table # "trips"

NextSettled ==
    \/ fetchEntries /\ NoErrors'
    \/ createEntry /\ NoErrors'
    \/ deleteEntry /\ NoErrors'
    \/ fetchDestinations /\ NoErrors'
    \/ saveDestination /\ NoErrors'
    \/ deleteDestination /\ NoErrors'
    \/ FormInput /\ NoErrors'
    \/ setDialogOpen /\ NoErrors'
    \/ StoreAnswersSelect /\ NoErrors'
    \/ StoreAnswersInsert /\ NoErrors'
    \/ StoreAnswersDelete /\ NoErrors'

SpecSettled == InitSettled /\ [][NextSettled]_vars

(***************************************************************************)
(* PlanTrip.                                                               *)
(***************************************************************************)
\* the interest badges shown (of the page's ten)
InterestOptions == {"Food"}
\* what the user may type: a budget is its digits
PlanInputs ==
    [destination |-> {"", "Tokyo, Japan"}, startDate |-> {NoDate, Jan1, Jan5},
     endDate |-> {NoDate, Jan1, Jan5}, budget |-> {<<>>, <<1, 0, 0, 0>>},
     travelType |-> {"", "solo"}]
\* what the recommendation function may return, and what the user may make of it
Texts == {"", "Day 1: ..."}
Edits == {"", "Day 1: ...", "Day 1: museum"}

InitPlanForm ==
    [destination |-> "", startDate |-> NoDate, endDate |-> NoDate,
     budget |-> <<>>, travelType |-> "", selectedInterests |-> <<>>]

RECURSIVE Without(_, _)
\* prev.filter(i => i !== interest)
Without(s, x) ==
    IF s = <<>> THEN <<>>
    ELSE IF Head(s) # x THEN <<Head(s)>> \o Without(Tail(s), x)
         ELSE Without(Tail(s), x)

\* prev.includes(interest) ? prev.filter(i => i !== interest) : [...prev, interest]
toggleInterest(prev, interest) ==
    IF interest \in Range(prev) THEN Without(prev, interest)
    ELSE Append(prev, interest)

RECURSIVE ParseDigits(_, _)
ParseDigits(s, acc) ==
    IF s = <<>> THEN acc ELSE ParseDigits(Tail(s), acc * 10 + Head(s))
\* parseFloat of a string of digits
parseFloat(s) == ParseDigits(s, 0)

\* days from 1970-01-01 to the civil date y-m-d (proleptic Gregorian)
DaysFromCivil(y, m, d) ==
    LET yy == IF m <= 2 THEN y - 1 ELSE y
        era == yy \div 400
        yoe == yy - era * 400
        mp == (m + 9) % 12
        doy == (153 * mp + 2) \div 5 + d - 1
        doe == yoe * 365 + yoe \div 4 - yoe \div 100 + doy
    IN  era * 146097 + doe - 719468

\* 1000 * 60 * 60 * 24 milliseconds, counted here in seconds: the milliseconds
\* since 1970 of a date of this century do not fit a 32-bit integer, and
\* both dates are midnights, so the quotient is the same
UnitsPerDay == 60 * 60 * 24

\* new Date("YYYY-MM-DD").getTime(): midnight UTC of that date
DateGetTime(date) == DaysFromCivil(date[1], date[2], date[3]) * UnitsPerDay

\* Math.ceil(a / b) for b > 0
MathCeilDiv(a, b) == -((-a) \div b)

\* a day count that includes both the first and the last day
CalculateDays_inclusive(startDate, endDate) ==
    IF startDate = NoDate \/ endDate = NoDate THEN 0
    ELSE MathCeilDiv(DateGetTime(endDate) - DateGetTime(startDate), UnitsPerDay) + 1

\* calculateDays over the two date fields
CalculateDays(startDate, endDate) ==
    IF startDate = NoDate \/ endDate = NoDate THEN 0
    ELSE MathCeilDiv(DateGetTime(endDate) - DateGetTime(startDate), UnitsPerDay)

calculateDays == CalculateDays(form.startDate, form.endDate)

\* the body handed to functions.invoke('travel-recommendations')
RecommendBody(f, days) ==
    [destination |-> f.destination,
     budget |-> parseFloat(f.budget),
     travelType |-> f.travelType,
     interests |-> f.selectedInterests,
     days |-> days]

\* a record written without the itinerary
TripBody_noNotes(uid, f, notes) ==
    [user_id |-> uid,
     destination |-> f.destination,
     start_date |-> f.startDate,
     end_date |-> f.endDate,
     budget |-> parseFloat(f.budget),
     travel_type |-> f.travelType,
     notes |-> "",
     status |-> "planned"]

\* the record handed to from('trips').insert(), of the values of the render
\* the handler was created in
TripBody(uid, f, notes) ==
    [user_id |-> uid,
     destination |-> f.destination,
     start_date |-> f.startDate,
     end_date |-> f.endDate,
     budget |-> parseFloat(f.budget),
     travel_type |-> f.travelType,
     notes |-> notes,
     status |-> "planned"]

\* a pending PlanTrip call and the request body it holds
PlanCall(kind, phase, body) ==
    [n |-> 0, kind |-> kind, phase |-> phase, body |-> body,
     err |-> FALSE, message |-> "", text |-> ""]

\* a validation that forgets the travel type
RecommendMissing_noTravelType(f) ==
    \/ f.destination = ""
    \/ f.budget = <<>>
    \/ Len(f.selectedInterests) = 0

\* if (!destination || !budget || !travelType || selectedInterests.length === 0)
RecommendMissing(f) ==
    \/ f.destination = ""
    \/ f.budget = <<>>
    \/ f.travelType = ""
    \/ Len(f.selectedInterests) = 0

\* a validation of the save that forgets the dates
SaveMissing_noDates(f) ==
    \/ f.destination = ""
    \/ f.budget = <<>>

\* if (!destination || !startDate || !endDate || !budget)
SaveMissing(f) ==
    \/ f.destination = ""
    \/ f.startDate = NoDate
    \/ f.endDate = NoDate
    \/ f.budget = <<>>

\* a handler that reads another field of the answer than the function sets
Recommendations_otherField(op) == ""

\* data.recommendations of the function's answer
Recommendations(op) == op.text

\* a page that renders the itinerary card whatever the text is
CardShown_always == TRUE

\* {aiRecommendations && (<Card>...)}: the itinerary card, with its textarea
\* and the "Save Trip" button, is rendered while the text is not empty
CardShown == aiRecommendations # ""

\* the click on "Get AI Recommendations" (disabled while loading)
RecommendCall ==
    /\ Shown("/plan-trip") /\ ~loading
    /\ IF RecommendMissing(form)
       THEN /\ toast' = Toast("error", "Please fill in all fields")
            /\ UNCHANGED <<loading, requests>>
       ELSE IF calculateDays <= 0
       THEN /\ toast' = Toast("error", "End date must be after start date")
            /\ UNCHANGED <<loading, requests>>
       ELSE /\ loading' = TRUE
            /\ requests' = requests \cup
                 {PlanCall("recommend", "invoke", RecommendBody(form, calculateDays))}
            /\ UNCHANGED toast
    /\ UNCHANGED <<session, StoreVars, RouteVars, table, entries, dialogOpen, form,
                   aiRecommendations, user, subscribed, fetches, creates, deletes,
                   authCalls, calls>>

\* a handler whose failure path does not leave the requesting state
RecommendReply_noFinally ==
    \E op \in requests :
        /\ op.kind = "recommend" /\ op.phase = "reply"
        /\ requests' = requests \ {op}
        /\ IF op.err
           THEN /\ toast' = Toast("error", OrElse(op.message, "Failed to get recommendations"))
                /\ UNCHANGED <<aiRecommendations, loading>>
           ELSE /\ aiRecommendations' = SetState(Recommendations(op), aiRecommendations)
                /\ toast' = Toast("success", "AI recommendations generated!")
                /\ loading' = SetState(FALSE, loading)
        /\ UNCHANGED <<session, StoreVars, RouteVars, table, entries, dialogOpen,
                       form, user, subscribed, fetches, creates, deletes,
                       authCalls, calls>>

\* handleGetRecommendations, resumed with the function's answer
RecommendReply ==
    \E op \in requests :
        /\ op.kind = "recommend" /\ op.phase = "reply"
        /\ requests' = requests \ {op}
        /\ IF op.err
           THEN /\ toast' = Toast("error", OrElse(op.message, "Failed to get recommendations"))
                /\ UNCHANGED aiRecommendations
           ELSE /\ aiRecommendations' = SetState(Recommendations(op), aiRecommendations)
                /\ toast' = Toast("success", "AI recommendations generated!")
        /\ loading' = SetState(FALSE, loading)
        /\ UNCHANGED <<session, StoreVars, RouteVars, table, entries, dialogOpen,
                       form, user, subscribed, fetches, creates, deletes,
                       authCalls, calls>>

handleGetRecommendations == RecommendCall \/ RecommendReply

\* the click on "Save Trip" (rendered with the recommendation, disabled while loading)
SaveCall ==
    /\ Shown("/plan-trip") /\ ~loading
    /\ CardShown
    /\ IF SaveMissing(form)
       THEN /\ toast' = Toast("error", "Please fill in all required fields")
            /\ UNCHANGED <<loading, requests>>
       ELSE /\ loading' = TRUE
            /\ requests' = requests \cup
                 {PlanCall("save", "getUser", TripBody(NoUser, form, aiRecommendations))}
            /\ UNCHANGED toast
    /\ UNCHANGED <<session, StoreVars, RouteVars, table, entries, dialogOpen, form,
                   aiRecommendations, user, subscribed, fetches, creates, deletes,
                   authCalls, calls>>

\* handleSaveTrip, resumed with getUser's answer
SaveGetUser ==
    \E op \in requests :
        /\ op.kind = "save" /\ op.phase = "getUser"
        /\ IF session = NoUser
           THEN /\ toast' = Toast("error", OrElse("Not authenticated", "Failed to save trip"))
                /\ loading' = SetState(FALSE, loading)
                /\ requests' = requests \ {op}
           ELSE /\ requests' = (requests \ {op})
                       \cup {[op EXCEPT !.phase = "insert", !.body.user_id = session]}
                /\ UNCHANGED <<toast, loading>>
        /\ UNCHANGED <<session, StoreVars, RouteVars, table, entries, dialogOpen,
                       form, aiRecommendations, user, subscribed, fetches, creates,
                       deletes, authCalls, calls>>

\* handleSaveTrip, resumed with the insert's answer
SaveReply ==
    \E op \in requests :
        /\ op.kind = "save" /\ op.phase = "reply"
        /\ requests' = requests \ {op}
        /\ IF op.err
           THEN /\ toast' = Toast("error", OrElse(op.message, "Failed to save trip"))
                /\ loading' = SetState(FALSE, loading)
                /\ UNCHANGED <<RouteVars, entries, dialogOpen, form,
                               aiRecommendations, user, subscribed>>
           ELSE /\ toast' = Toast("success", "Trip saved successfully!")
                /\ Navigate("/trips")
        /\ UNCHANGED <<session, StoreVars, table, fetches, creates, deletes,
                       authCalls, calls>>

handleSaveTrip == SaveCall \/ SaveGetUser \/ SaveReply

\* the inputs' onChange handlers (setDestination, setStartDate, setEndDate,
\* setBudget, setTravelType)
PlanInput ==
    /\ Shown("/plan-trip")
    /\ \E k \in DOMAIN PlanInputs :
          \E v \in PlanInputs[k] :
             /\ v # form[k]
             /\ form' = [form EXCEPT ![k] = v]
    /\ UNCHANGED <<session, StoreVars, RouteVars, table, entries, loading,
                   dialogOpen, aiRecommendations, user, subscribed, OpVars, toast>>

\* the click on an interest badge
ToggleInterest ==
    /\ Shown("/plan-trip")
    /\ \E i \in InterestOptions :
          form' = [form EXCEPT !.selectedInterests = toggleInterest(@, i)]
    /\ UNCHANGED <<session, StoreVars, RouteVars, table, entries, loading,
                   dialogOpen, aiRecommendations, user, subscribed, OpVars, toast>>

\* the itinerary textarea's onChange (rendered while the text is not empty)
EditRecommendations ==
    /\ Shown("/plan-trip")
    /\ CardShown
    /\ \E v \in Edits :
          /\ v # aiRecommendations
          /\ aiRecommendations' = v
    /\ UNCHANGED <<session, StoreVars, RouteVars, table, entries, loading,
                   dialogOpen, form, user, subscribed, OpVars, toast>>

\* the recommendation function answers: an error, or {recommendations: text}
FunctionAnswers ==
    \E op \in requests :
        /\ op.kind = "recommend" /\ op.phase = "invoke"
        /\ \/ \E m \in Messages :
                 requests' = (requests \ {op})
                    \cup {[op EXCEPT !.phase = "reply", !.err = TRUE, !.message = m]}
           \/ \E t \in Texts :
                 requests' = (requests \ {op})
                    \cup {[op EXCEPT !.phase = "reply", !.text = t]}
        /\ UNCHANGED <<session, StoreVars, RouteVars, PageVars, fetches, creates,
                       deletes, authCalls, calls, toast>>

\* the store answers the trip insert: an error, or the row is written
StoreAnswersTrip ==
    \E op \in requests :
        /\ op.kind = "save" /\ op.phase = "insert"
        /\ \/ /\ \E m \in Messages :
                    requests' = (requests \ {op})
                       \cup {[op EXCEPT !.phase = "reply", !.err = TRUE, !.message = m]}
              /\ UNCHANGED StoreVars
           \/ /\ requests' = (requests \ {op}) \cup {[op EXCEPT !.phase = "reply"]}
              /\ store' = StoreInsert("trips", op.body)
              /\ nextId' = nextId + 1
        /\ UNCHANGED <<session, RouteVars, PageVars, fetches, creates, deletes,
                       authCalls, calls, toast>>

PlanMount(f) ==
    /\ table = "trips"
    /\ store = InitStore("trips")
    /\ nextId = FirstFreeId
    /\ path = "/plan-trip"
    /\ mounted = TRUE
    /\ entries = <<>>
    /\ loading = FALSE
    /\ dialogOpen = FALSE
    /\ form = f
    /\ aiRecommendations = ""
    /\ user = NoUser
    /\ subscribed = 0
    /\ fetches = {}
    /\ creates = {}
    /\ deletes = {}
    /\ requests = {}
    /\ authCalls = {}
    /\ calls = 0
    /\ toast = NoToast

InitPlan == session \in {Me, NoUser} /\ PlanMount(InitPlanForm)

NextPlan ==
    \/ handleGetRecommendations \/ handleSaveTrip
    \/ PlanInput \/ ToggleInterest \/ EditRecommendations \/ BackToHome
    \/ FunctionAnswers \/ StoreAnswersTrip

\* PlanTrip reads the session in handleSaveTrip alone; the page is followed
\* with the session it was opened with
SpecPlan == InitPlan /\ [][NextPlan]_vars

\* calculateDays over dates across month, leap-day and year ends: the form
\* is filled in and the user asks for recommendations
DateInputs ==
    {NoDate, <<2023, 12, 31>>, Jan1, Jan5, <<2024, 2, 28>>, <<2024, 2, 29>>,
     <<2024, 3, 1>>, <<2025, 3, 1>>}

InitDays ==
    /\ session = Me
    /\ \E s \in DateInputs, e \in DateInputs :
          PlanMount([destination |-> "Tokyo, Japan", startDate |-> s,
                     endDate |-> e, budget |-> <<1, 0, 0, 0>>,
                     travelType |-> "solo", selectedInterests |-> <<"Food">>])

NextDays == handleGetRecommendations \/ FunctionAnswers

SpecDays == InitDays /\ [][NextDays]_vars

(***************************************************************************)
(* Home (Index).                                                           *)
(***************************************************************************)
AuthCall(n, kind) == [n |-> n, kind |-> kind, phase |-> "call", err |-> FALSE]

\* useEffect: supabase.auth.getSession().then(...)
getSession ==
    \E op \in authCalls :
        /\ op.kind = "getSession"
        /\ authCalls' = authCalls \ {op}
        /\ IF session = NoUser
           THEN Navigate("/auth")
           ELSE /\ user' = SetState(session, user)
                /\ loading' = SetState(FALSE, loading)
                /\ UNCHANGED <<RouteVars, entries, dialogOpen, form,
                               aiRecommendations, subscribed>>
        /\ UNCHANGED <<session, StoreVars, table, fetches, creates, deletes,
                       requests, calls, toast>>

\* useEffect: the callback given to supabase.auth.onAuthStateChange, called
\* by the provider with its session while the subscription lives
onAuthStateChange ==
    /\ subscribed > 0
    /\ IF session = NoUser
       THEN Navigate("/auth")
       ELSE /\ user' = SetState(session, user)
            /\ UNCHANGED <<RouteVars, entries, loading, dialogOpen, form,
                           aiRecommendations, subscribed>>
    /\ UNCHANGED <<session, StoreVars, table, OpVars, toast>>

\* the click on "Sign Out"
SignOutCall ==
    /\ Shown("/") /\ ~loading
    /\ MayCall
    /\ calls' = NewCall
    /\ authCalls' = authCalls \cup {AuthCall(NewCall, "signOut")}
    /\ UNCHANGED <<session, StoreVars, RouteVars, PageVars, fetches, creates,
                   deletes, requests, toast>>

\* a handler that leaves for /auth whatever signOut answered
SignOutReply_alwaysNavigates ==
    \E op \in authCalls :
        /\ op.kind = "signOut" /\ op.phase = "reply"
        /\ authCalls' = authCalls \ {op}
        /\ toast' = IF op.err THEN Toast("error", "Failed to sign out")
                    ELSE Toast("success", "Signed out successfully")
        /\ Navigate("/auth")
        /\ UNCHANGED <<session, StoreVars, table, fetches, creates, deletes,
                       requests, calls>>

\* handleSignOut, resumed with signOut's answer
SignOutReply ==
    \E op \in authCalls :
        /\ op.kind = "signOut" /\ op.phase = "reply"
        /\ authCalls' = authCalls \ {op}
        /\ IF op.err
           THEN /\ toast' = Toast("error", "Failed to sign out")
                /\ UNCHANGED <<RouteVars, StateVars>>
           ELSE /\ toast' = Toast("success", "Signed out successfully")
                /\ Navigate("/auth")
        /\ UNCHANGED <<session, StoreVars, table, fetches, creates, deletes,
                       requests, calls>>

handleSignOut == SignOutCall \/ SignOutReply

\* the click on one of the cards: navigate('/plan-trip'), ...
OpenCard ==
    /\ Shown("/") /\ ~loading
    /\ \E to \in {"/plan-trip", "/trips", "/diary", "/discover"} : Navigate(to)
    /\ UNCHANGED <<session, StoreVars, table, OpVars, toast>>

\* the auth provider answers signOut: an error, or the session is removed
AuthAnswersSignOut ==
    \E op \in authCalls :
        /\ op.kind = "signOut" /\ op.phase = "call"
        /\ \/ /\ authCalls' = (authCalls \ {op})
                    \cup {[op EXCEPT !.phase = "reply", !.err = TRUE]}
              /\ UNCHANGED session
           \/ /\ authCalls' = (authCalls \ {op}) \cup {[op EXCEPT !.phase = "reply"]}
              /\ session' = NoUser
        /\ UNCHANGED <<StoreVars, RouteVars, PageVars, fetches, creates, deletes,
                       requests, calls, toast>>

InitHome ==
    /\ session \in {Me, NoUser}
    /\ table = "trips"
    /\ store = InitStore("trips")
    /\ nextId = FirstFreeId
    /\ path = "/"
    /\ mounted = TRUE
    /\ entries = <<>>
    /\ loading = TRUE
    /\ dialogOpen = FALSE
    /\ form = <<>>
    /\ aiRecommendations = ""
    /\ user = NoUser
    /\ subscribed = 1
    /\ fetches = {}
    /\ creates = {}
    /\ deletes = {}
    /\ requests = {}
    /\ authCalls = {AuthCall(0, "getSession")}
    /\ calls = 0
    /\ toast = NoToast

NextHome ==
    \/ getSession \/ onAuthStateChange \/ handleSignOut \/ OpenCard
    \/ AuthAnswersSignOut \/ SessionEnds

SpecHome == InitHome /\ [][NextHome]_vars

(***************************************************************************)
(* The application: one of its pages, opened by the router.                *)
(***************************************************************************)
Init == InitHome \/ InitPlan \/ InitList

Next == NextHome \/ NextPlan \/ NextList

Spec == Init /\ [][Next]_vars

----------------------------------------------------------------------------
\* Properties of the pages

\* the rows a list holds or a store table keeps, by id
Ids(rows) == {r.id : r \in rows}

\* a request that has left the page for the store or the function
OnTheWire ==
    \/ \E op \in fetches : op.phase = "select"
    \/ \E op \in creates : op.phase = "insert"
    \/ \E op \in deletes : op.phase = "delete"
    \/ \E op \in requests : op.phase \in {"invoke", "insert"}

\* the session check a page makes when it mounts is still to be answered
GuardPending ==
    \/ \E op \in fetches : op.phase = "getUser" /\ op.after.id = 0
    \/ \E op \in authCalls : op.kind = "getSession"

\* C1: a page opened without a session sends nothing to the store or to the
\* recommendation function, and stays open no longer than its session check
\* takes (its answer sends the page to /auth). Under SpecPlan the session is the
\* one the page was opened with.
C1_SessionGuard ==
    session = NoUser =>
        /\ ~OnTheWire
        /\ mounted => GuardPending

\* C2: every list request carries the filter user_id = the user that the
\* same fetch got from getUser, every answer holds rows of that user alone,
\* and the list in memory never holds a row of another user.
C2_OwnershipIsolation ==
    /\ \A op \in fetches :
          op.phase \in {"select", "reply"} =>
             /\ op.uid # NoUser
             /\ op.query = {<<"user_id", op.uid>>}
             /\ \A i \in 1..Len(op.data) : op.data[i].user_id = op.uid
    /\ \A i \in 1..Len(entries) : entries[i].user_id = Me

C2_Witness ==
    /\ mounted /\ ~loading
    /\ Len(entries) >= 2
    /\ \E r \in store[table] : r.user_id = Other
    /\ \E i \in 1..Len(entries) : entries[i].id >= FirstFreeId

\* the form as the claim wants it for a recommendation request
C3_Valid ==
    /\ form.destination # ""
    /\ form.budget # <<>>
    /\ form.travelType # ""
    /\ form.selectedInterests # <<>>
    /\ calculateDays > 0

C3_Step ==
    /\ \A op \in requests' \ requests :
          (op.kind = "recommend" /\ op.phase = "invoke") => C3_Valid
    /\ (RecommendCall /\ ~C3_Valid) =>
          /\ requests' = requests
          /\ loading' = loading
          /\ toast'.level = "error"
          /\ toast'.msg \in {"Please fill in all fields",
                             "End date must be after start date"}

\* C3: the recommendation function is called only when destination, budget
\* and travel type are not empty, an interest is selected and the day count
\* is above 0; a click with anything else shows a validation error and
\* sends nothing.
C3_ValidationBeforeInvoke == [][C3_Step]_vars

C3_Witness ==
    /\ mounted
    /\ form.destination # "" /\ form.budget # <<>> /\ form.selectedInterests # <<>>
    /\ form.travelType = ""
    /\ toast = Toast("error", "Please fill in all fields")
    /\ requests = {}

\* the calendar, day by day
IsLeapYear(y) == (y % 4 = 0 /\ y % 100 # 0) \/ y % 400 = 0

DaysInMonth(y, m) ==
    IF m = 2 THEN (IF IsLeapYear(y) THEN 29 ELSE 28)
    ELSE IF m \in {4, 6, 9, 11} THEN 30 ELSE 31

Before(a, b) ==
    \/ a[1] < b[1]
    \/ a[1] = b[1] /\ a[2] < b[2]
    \/ a[1] = b[1] /\ a[2] = b[2] /\ a[3] < b[3]

FirstOfNextMonth(date) ==
    IF date[2] < 12 THEN <<date[1], date[2] + 1, 1>> ELSE <<date[1] + 1, 1, 1>>

\* the days from a date to a later one, one month after the other
RECURSIVE DaysUntil(_, _)
DaysUntil(from, to) ==
    IF from[1] = to[1] /\ from[2] = to[2] THEN to[3] - from[3]
    ELSE (DaysInMonth(from[1], from[2]) - from[3] + 1)
            + DaysUntil(FirstOfNextMonth(from), to)

\* the calendar days from one date to another, negative when the second is
\* the earlier one
CalendarDays(from, to) ==
    IF Before(to, from) THEN 0 - DaysUntil(to, from) ELSE DaysUntil(from, to)

\* C4: the day count of the form is the number of calendar days from the
\* start date to the end date (4 from 1 January to 5 January), 0 when a date
\* is not set, and a form whose end date is not after its start date never
\* gets a request sent. Under SpecDays the form is the one the page starts
\* with.
C4_DayCount ==
    /\ CalculateDays(Jan1, Jan5) = 4
    /\ IF form.startDate = NoDate \/ form.endDate = NoDate
       THEN calculateDays = 0
       ELSE /\ calculateDays = CalendarDays(form.startDate, form.endDate)
            /\ ~Before(form.startDate, form.endDate) =>
                  /\ requests = {}
                  /\ ~loading
                  /\ aiRecommendations = ""
                  /\ toast \in {NoToast,
                               Toast("error", "End date must be after start date")}

C4_Witness ==
    /\ form.startDate = <<2024, 3, 1>>
    /\ form.endDate = <<2024, 2, 28>>
    /\ toast = Toast("error", "End date must be after start date")

C5_Step ==
    \* the click: the record to write is made of the form and of the text
    \* as it is edited now
    /\ \A op \in requests' \ requests :
          (op.kind = "save" /\ op.phase = "getUser") =>
             /\ op.body.notes = aiRecommendations
             /\ op.body.status = "planned"
             /\ op.body.destination = form.destination
             /\ op.body.start_date = form.startDate
             /\ op.body.end_date = form.endDate
    \* the store accepts the write: one row more, the record of the click
    /\ \A op \in requests :
          (op.kind = "save" /\ op.phase = "insert"
             /\ \E done \in requests' : done.phase = "reply" /\ ~done.err) =>
             \E r \in store'["trips"] \ store["trips"] :
                /\ store'["trips"] = store["trips"] \cup {r}
                /\ r.user_id = Me
                /\ r.notes = op.body.notes
                /\ r.status = "planned"
                /\ r.destination = op.body.destination
                /\ r.start_date = op.body.start_date
                /\ r.end_date = op.body.end_date
    \* the handler resumes: it goes to the trips list
    /\ \A op \in requests \ requests' :
          (op.kind = "save" /\ op.phase = "reply" /\ ~op.err) =>
             /\ path' = "/trips"
             /\ toast' = Toast("success", "Trip saved successfully!")
    \* one visit of the page writes one trip at most
    /\ Cardinality(store'["trips"]) <= Cardinality(InitRows("trips")) + 1

\* C5: with a recommendation shown, destination, dates and budget filled in,
\* a user signed in and a store that accepts the write, "Save Trip" writes
\* exactly one trip whose notes are the text as edited at the click and
\* whose status is "planned", and then goes to /trips.
C5_SaveTrip == [][C5_Step]_vars

C5_Witness ==
    /\ path = "/trips"
    /\ toast = Toast("success", "Trip saved successfully!")
    /\ \E r \in store["trips"] :
          r.id = FirstFreeId /\ r.notes = "Day 1: museum" /\ r.status = "planned"

\* the answer of the recommendation function arrives at the open page
C10_Arrives(op) ==
    /\ mounted
    /\ op.kind = "recommend" /\ op.phase = "reply" /\ ~op.err
    /\ op \notin requests'

\* the page with the text shown for editing, nothing pending, no trip written
C10_Ready(text) ==
    /\ aiRecommendations' = text
    /\ CardShown'
    /\ ~loading'
    /\ requests' = {}
    /\ store' = store
    /\ store["trips"] = InitRows("trips")

C10_OneCall ==
    (RecommendCall /\ C3_Valid) =>
        /\ requests = {}
        /\ Cardinality(requests') = 1

\* C10 as the specification states it: for every text the function answers
\* with, the page shows that text for editing.
C10_AnyText ==
    [][C10_OneCall /\ \A op \in requests : C10_Arrives(op) => C10_Ready(op.text)]_vars

\* C10: when a validated recommendation request succeeds with a text that is
\* not empty, the open page shows exactly that text for editing, the click
\* made exactly one call of the function, and no trip was written.
C10_RecommendationReady ==
    [][C10_OneCall
       /\ \A op \in requests :
             (C10_Arrives(op) /\ op.text # "") => C10_Ready(op.text)]_vars

C10_Witness ==
    /\ mounted /\ ~loading
    /\ requests = {}
    /\ aiRecommendations = "Day 1: ..."
    /\ toast = Toast("success", "AI recommendations generated!")

\* a row holds the values the form was submitted with
C6_SameFields(r, f) ==
    CASE table = "diary_entries" ->
            /\ r.title = f.title /\ r.content = f.content
            /\ r.location = f.location /\ r.entry_date = f.entryDate
      [] table = "saved_destinations" ->
            /\ r.destination_name = f.name /\ r.location = f.location
            /\ r.description = f.description /\ r.category = f.category

\* the handler resumes after an accepted insert: the list is left as it is
\* and a List is requested
C6_Relists ==
    \A op \in creates \ creates' :
        (op.phase = "reply" /\ ~op.err) =>
            /\ entries' = entries
            /\ \E f \in fetches' \ fetches :
                  f.phase = "getUser" /\ f.after.id = op.rowId

\* the List requested after an insert succeeds and its rows reach the open page
C6_Applied(op) ==
    /\ mounted
    /\ op \notin fetches'
    /\ op.phase = "reply" /\ ~op.err
    /\ op.after.id # 0

C6_InList(op) ==
    \E i \in 1..Len(entries') :
        /\ entries'[i].id = op.after.id
        /\ C6_SameFields(entries'[i], op.after.closure)

\* C6 as the specification states it: after a successful insert the page
\* requests a full List and appends nothing, and once that List has
\* succeeded the list in memory holds the inserted record with the values
\* submitted.
C6_InsertedIsListed ==
    [][C6_Relists /\ \A op \in fetches : C6_Applied(op) => C6_InList(op)]_vars

\* C6: after a successful insert the page requests a full List and appends
\* nothing, and once that List has succeeded the list in memory is its
\* answer, which holds the inserted record with the values submitted unless
\* the record has been deleted from the store since.
C6_InsertedIsListedUnlessDeleted ==
    [][C6_Relists
       /\ \A op \in fetches :
             C6_Applied(op) =>
                /\ entries' = op.data
                /\ C6_InList(op) \/ op.after.id \notin Ids(store[table])]_vars

C6_Witness ==
    /\ mounted /\ table # "trips"
    /\ fetches = {} /\ creates = {}
    /\ toast = Toast("success", Created(table))
    /\ \E i \in 1..Len(entries) : entries[i].id = FirstFreeId

\* C7: a successful delete of an id that is in the list takes exactly the
\* item of that id out of the list in memory, leaves the other items and
\* their order as they are, requests no List, and the record is in the store
\* no more.
C7_DeleteRemovesOne ==
    [][\A op \in deletes \ deletes' :
          (mounted /\ op.phase = "reply" /\ ~op.err
             /\ op.id \in Ids(Range(entries))) =>
             /\ entries' = SeqFilter(entries, op.id)
             /\ fetches' = fetches
             /\ op.id \notin Ids(store'[table])]_vars

\* C8: a delete of an id that the store does not hold ends in a failure
\* notification and leaves the list in memory as it is.
C8_DeleteMissingFails ==
    [][\A op \in deletes \ deletes' :
          (op.phase = "reply" /\ ~op.found) =>
             /\ toast'.level = "error"
             /\ entries' = entries]_vars

\* signOut has answered and handleSignOut resumes
C9_Completes(op) ==
    /\ op \notin authCalls'
    /\ op.kind = "signOut" /\ op.phase = "reply"

\* C9 as the specification states it: when the sign-out call completes the
\* page goes to /auth, whether the call succeeded or failed.
C9_AlwaysToAuth ==
    [][\A op \in authCalls : C9_Completes(op) => path' = "/auth"]_vars

\* C9: when the sign-out call completes with success the page goes to /auth;
\* when it completes with a failure the page shows "Failed to sign out" and
\* stays where it is.
C9_ToAuthOnSuccess ==
    [][\A op \in authCalls :
          C9_Completes(op) =>
             IF op.err
             THEN /\ toast' = Toast("error", "Failed to sign out")
                  /\ path' = path /\ mounted' = mounted
             ELSE /\ toast' = Toast("success", "Signed out successfully")
                  /\ path' = "/auth"]_vars

C9_Witness ==
    /\ path = "/" /\ mounted
    /\ session = Me
    /\ authCalls = {}
    /\ toast = Toast("error", "Failed to sign out")

\* the subscriptions Home holds: one while it is mounted, none after
C11_One == subscribed = (IF mounted THEN 1 ELSE 0)

\* C11: Home holds exactly one session-change subscription while it is
\* mounted and none once it is unmounted; a notification that reaches the
\* mounted page puts the notified session's user in the local user, and one
\* that carries no session sends the page to /auth.
C11_Subscription ==
    [][/\ C11_One /\ C11_One'
       /\ (onAuthStateChange /\ mounted) =>
             IF session = NoUser
             THEN path' = "/auth" /\ user' = NoUser
             ELSE user' = session /\ path' = path /\ mounted']_vars

C11_Witness ==
    /\ ~mounted /\ subscribed = 0
    /\ path = "/auth"
    /\ session = NoUser
    /\ toast = NoToast
    /\ \E op \in authCalls : op.kind = "signOut" /\ op.phase = "reply" /\ ~op.err

\* C12: when the store answers a delete with an error the handler shows the
\* page's generic failure notification, leaves the list in memory as it is
\* (the item is still in it), and starts no List and no other delete.
C12_DeleteError ==
    [][\A op \in deletes \ deletes' :
          (op.phase = "reply" /\ op.err) =>
             /\ toast'.level = "error"
             /\ toast'.msg \in {"Failed to delete trip", "Failed to delete entry",
                               "Failed to remove destination"}
             /\ entries' = entries
             /\ entries = op.closure => op.id \in Ids(Range(entries'))
             /\ fetches' = fetches
             /\ deletes' = deletes \ {op}
             /\ creates' = creates
             /\ store' = store]_vars

C12_Witness ==
    /\ mounted /\ deletes = {} /\ fetches = {}
    /\ toast.level = "error" /\ toast.msg = DeleteFailed(table)
    /\ Len(entries) = Cardinality(StoreFilter(store[table], ListQuery(Me)))
    /\ Len(entries) >= 1

\* a List has failed and the fetch resumes on the open page
C13_Fails(op) ==
    /\ mounted
    /\ op \notin fetches'
    /\ op.phase = "reply" /\ op.err

\* the notification of the failure, and no second try
C13_Notifies(op) ==
    /\ toast'.level = "error"
    /\ toast'.msg \in {"Failed to load trips", "Failed to load diary entries",
                      "Failed to load destinations"}
    /\ fetches' = fetches \ {op}
    /\ ~loading'

\* C13 as the specification states it: whenever a List fails, on the first
\* load or after an insert, the page shows the "failed to load"
\* notification, does not retry, and the list in memory is left empty.
C13_ListLeftEmpty ==
    [][\A op \in fetches :
          C13_Fails(op) => C13_Notifies(op) /\ entries' = <<>>]_vars

\* C13: whenever a List fails the page shows the "failed to load"
\* notification, does not retry, and leaves the list in memory as it was:
\* empty on the first load, the rows shown before after an insert.
C13_ListLeftAsItWas ==
    [][\A op \in fetches :
          C13_Fails(op) =>
             /\ C13_Notifies(op)
             /\ entries' = entries
             /\ op.after.id = 0 => entries' = <<>>]_vars

C13_Witness ==
    /\ mounted /\ fetches = {} /\ creates = {} /\ deletes = {}
    /\ toast = Toast("error", LoadFailed(table))
    /\ Len(entries) >= 1

\* an insert has failed and its handler resumes
C14_CreateFails(op) == op \notin creates' /\ op.phase = "reply" /\ op.err
C14_SaveFails(op) ==
    op \notin requests' /\ op.kind = "save" /\ op.phase = "reply" /\ op.err

\* nothing but the notification changes on a list page; PlanTrip also
\* leaves its saving state
C14_CreateStays ==
    /\ toast'.level = "error"
    /\ fetches' = fetches
    /\ path' = path /\ mounted' = mounted
    /\ entries' = entries /\ form' = form /\ dialogOpen' = dialogOpen

C14_SaveStays(op) ==
    /\ toast'.level = "error"
    /\ requests' = requests \ {op}
    /\ path' = path /\ mounted' = mounted
    /\ form' = form /\ aiRecommendations' = aiRecommendations
    /\ store' = store
    /\ mounted => ~loading'

\* C14 as the specification states it: when an insert returns an error the
\* notification shows the store's error message, no List and no navigation
\* follows, and the list, the form fields and the open dialog are unchanged.
C14_StoreMessageShown ==
    [][/\ \A op \in creates :
             C14_CreateFails(op) => C14_CreateStays /\ toast'.msg = op.message
       /\ \A op \in requests :
             C14_SaveFails(op) => C14_SaveStays(op) /\ toast'.msg = op.message]_vars

\* C14: when an insert returns an error the notification shows the store's
\* error message, or the page's own failure text when that message is
\* empty, no List and no navigation follows, and the list, the form fields
\* and the open dialog are unchanged.
C14_StoreMessageOrGeneric ==
    [][/\ \A op \in creates :
             C14_CreateFails(op) =>
                /\ C14_CreateStays
                /\ toast'.msg =
                      IF op.message # "" THEN op.message
                      ELSE IF table = "diary_entries" THEN "Failed to create entry"
                      ELSE "Failed to save destination"
       /\ \A op \in requests :
             C14_SaveFails(op) =>
                /\ C14_SaveStays(op)
                /\ toast'.msg =
                      IF op.message # "" THEN op.message ELSE "Failed to save trip"]_vars

C14_Witness ==
    /\ mounted /\ dialogOpen
    /\ creates = {} /\ fetches = {}
    /\ ~FormMissing(table, form)
    /\ toast = Toast("error", "backend error")

\* the call a pending state waits for: the first List of a list page, the
\* request or the save of PlanTrip
C15_Outstanding ==
    \/ \E op \in fetches : op.after.id = 0
    \/ requests # {}

\* the pending state of the open page is there exactly while the call is
C15_PendingWhileOutstanding ==
    (mounted /\ path # "/") => (loading <=> C15_Outstanding)

\* C15: on the list pages and on PlanTrip the pending state (loading,
\* requesting, saving) is on exactly while the call it waits for is
\* outstanding: it ends when the call settles, with success or with
\* failure, and nothing else ends it; a failed recommendation request
\* leaves the text shown before as it is.
C15_PendingState ==
    [][/\ C15_PendingWhileOutstanding
       /\ C15_PendingWhileOutstanding'
       /\ \A op \in requests \ requests' :
             (op.kind = "recommend" /\ op.phase = "reply" /\ op.err) =>
                /\ aiRecommendations' = aiRecommendations
                /\ mounted => ~loading']_vars

C15_Witness ==
    /\ Shown("/plan-trip") /\ ~loading
    /\ requests = {}
    /\ aiRecommendations = "Day 1: museum"
    /\ toast = Toast("error", "Failed to get recommendations")

\* the trips written since the page was opened
C16_Written == store["trips"] \ InitRows("trips")

\* C16 as the specification states it: every trip that Save Trip writes has
\* an end date after its start date.
C16_EndAfterStart ==
    \A r \in C16_Written :
        r.start_date # NoDate /\ r.end_date # NoDate
           /\ Before(r.start_date, r.end_date)

\* C16: every trip that Save Trip writes has a start date and an end date,
\* those of the form at the click; Save Trip does not compare them, so the
\* end date is after the start date only when the form has them in that
\* order at the click. A recommendation request is sent only for an end
\* date after the start date.
C16_DatesOfTheForm ==
    [][/\ \A op \in requests' \ requests :
             /\ (op.kind = "save" /\ op.phase = "getUser") =>
                   /\ form.startDate # NoDate /\ form.endDate # NoDate
                   /\ op.body.start_date = form.startDate
                   /\ op.body.end_date = form.endDate
             /\ (op.kind = "recommend" /\ op.phase = "invoke") =>
                   /\ form.startDate # NoDate /\ form.endDate # NoDate
                   /\ Before(form.startDate, form.endDate)
       /\ \A r \in store'["trips"] \ store["trips"] :
             /\ r.start_date # NoDate /\ r.end_date # NoDate
             /\ \E op \in requests :
                   /\ op.kind = "save" /\ op.phase = "insert"
                   /\ r.start_date = op.body.start_date
                   /\ r.end_date = op.body.end_date]_vars

C16_Witness ==
    \E r \in C16_Written :
        /\ r.start_date = Jan5 /\ r.end_date = Jan1
        /\ r.notes # ""

\* the last of the outstanding deletes succeeds and resumes on the open
\* page, with no List in play
C17_LastCompletes(op) ==
    /\ mounted
    /\ op.phase = "reply" /\ ~op.err
    /\ deletes' = {} /\ deletes = {op}
    /\ fetches = {} /\ creates = {}

\* C17: when deletes of different ids were outstanding together and all
\* have succeeded and completed, none of their ids is in the list in
\* memory: the list at the click of the last one holds no id that the
\* store has deleted and that is in the list still.
C17_BothGone ==
    [][\A op \in deletes :
          C17_LastCompletes(op) =>
             \A id \in Ids(Range(op.closure)) :
                id \notin Ids(store'[table]) => id \notin Ids(Range(entries'))]_vars

\* C18: on Diary and Discover, once no insert, List or delete is
\* outstanding, the list in memory holds exactly the rows the store keeps
\* for the user. Under SpecSettled every call is answered with success.
C18_ListIsStore ==
    (mounted /\ ~loading /\ fetches = {} /\ creates = {} /\ deletes = {}) =>
        /\ Range(entries) = StoreFilter(store[table], ListQuery(Me))
        /\ Len(entries) = Cardinality(Range(entries))

\* a pending call of the page resumes: Home's session query, a fetch or a
\* delete of a list page, the request or the save of PlanTrip
C19_Resumes ==
    \/ \E op \in authCalls \ authCalls' : op.kind = "getSession"
    \/ fetches \ fetches' # {}
    \/ deletes \ deletes' # {}
    \/ requests \ requests' # {}

\* C19: once the page is unmounted no callback of it that was still
\* pending changes the route or the page's state.
C19_StaleCallbacksIdle ==
    [][(~mounted /\ C19_Resumes) => (path' = path /\ UNCHANGED StateVars)]_vars

\* the trips PlanTrip has written, and the inserts it has under way
C20_Written == {r \in store["trips"] : r.id >= FirstFreeId}

C20_Saves == {op \in requests : op.kind = "save"}

\* a save starts only from a text that is not empty, and carries that text
C20_SaveFromText ==
    \A op \in C20_Saves' \ C20_Saves :
        op.phase = "getUser" =>
            /\ aiRecommendations # ""
            /\ op.body.notes = aiRecommendations

\* the text leaves the empty state only with a successful answer of the function
C20_TextFromAnswer ==
    (aiRecommendations = "" /\ aiRecommendations' # "") =>
        \E op \in requests \ requests' :
            op.kind = "recommend" /\ ~op.err /\ Recommendations(op) = aiRecommendations'

\* C20: a trip insert is issued only while the recommendation text is not
\* empty (no save before a successful recommendation, none after the text
\* was edited to empty), so every trip PlanTrip writes has notes that are
\* not empty.
C20_SavedNotesNotEmpty ==
    /\ [](\A op \in C20_Saves : op.body.notes # "")
    /\ [](\A r \in C20_Written : r.notes # "")
    /\ [][C20_SaveFromText /\ C20_TextFromAnswer]_vars

\* a trip was written with the text the user had edited, and the text of
\* the page has since been edited to empty
C20_Witness ==
    /\ \E r \in C20_Written : r.notes = "Day 1: museum"
    /\ Shown("/plan-trip") /\ aiRecommendations = ""

====
